---- MODULE Spec2Model ----
(***************************************************************************)
(* Model of the content gap analyzer (src/app.py) and of the relative-age  *)
(* label of the Reddit scraper (src/reddit_scrapper.py).                   *)
(*                                                                         *)
(* Eight specifications share the variables below:                         *)
(*   Spec         the "Scrape & Analyze" handler of app.py: the scraping   *)
(*                loop, the batch loop and analyze_content_gaps_batch      *)
(*                with its retries;                                        *)
(*   SpecPlan     the batch loop's slicing alone, on every list length     *)
(*                from 0;                                                  *)
(*   SpecExtract  the extraction of the JSON text from a raw response;     *)
(*   SpecTime     the "time ago" label of extract_reddit_details;          *)
(*   SpecReddit   get_reddit_html and extract_reddit_details on one URL;   *)
(*   SpecTable    process_reddit_urls on an uploaded table;                *)
(*   SpecScore    one batch whose answer carries coverage scores;          *)
(*   SpecSession  the two buttons of app.py over the session state.        *)
(*                                                                         *)
(* Text is a Python str, modelled as a TLA+ string; Len, SubSeq and \o    *)
(* are its len(), slicing and concatenation.                               *)
(***************************************************************************)
EXTENDS Integers, Sequences, FiniteSets, TLC

\* ------------------------------------------------------------------ bounds
MaxQueries == 21
MaxUrls == 2
MaxPlanLen == 35
MaxRawLen == 5
MaxDays == 800

\* ------------------------------------------------------- program constants
batch_size == 10
max_retries == 3
retry_delay == 2
batch_delay == 1
content_limit == 5000

VARIABLES
    pc,                    \* position of the run
    urls_to_process,       \* the URLs entered (app.py 250, 258)
    fetched,               \* outcome of each requests.get so far, in order
    scraped_contents,      \* app.py 266
    generated_queries,     \* st.session_state.generated_queries
    batch_num,             \* loop variable of the batch loop
    batches,               \* the batch_queries slices formed so far, in order
    batch_queries,         \* the slice of the batch being analysed
    all_analysis_results,  \* app.py 285
    analysis_results,      \* st.session_state.analysis_results
    batch_sleeps,          \* the inter-batch time.sleep calls made, in order
    attempt,               \* loop variable of the retry loop
    raw_text,              \* local of analyze_content_gaps_batch, unbound at entry
    json_text,             \* local of analyze_content_gaps_batch
    trace,                 \* what each model call of the current batch did
    sleeps,                \* delays slept inside the current call, in order
    failure,               \* what st.error reported for the current call
    ret,                   \* value returned by analyze_content_gaps_batch
    age,                   \* now - dt in whole seconds (reddit_scrapper.py 93)
    reddit_time_ago,       \* details['reddit_time_ago']
    page,                  \* the document behind a Reddit URL, as elements
    html_content,          \* what get_reddit_html returned
    details,               \* what extract_reddit_details returned
    df_input,              \* the uploaded table
    url_column,            \* the column process_reddit_urls reads URLs from
    df,                    \* the table process_reddit_urls works on
    row_pos,               \* rows of reddit_urls processed so far
    queries_generated,     \* st.session_state.queries_generated
    generations,           \* "Generate & Analyze" presses so far
    model_texts            \* the texts the model may answer a prompt with

scrapeVars == <<urls_to_process, fetched, scraped_contents>>
loopVars == <<generated_queries, batch_num, batches, batch_queries,
              all_analysis_results, analysis_results, batch_sleeps>>
callVars == <<attempt, raw_text, json_text, trace, sleeps, failure, ret>>
timeVars == <<age, reddit_time_ago>>
redditVars == <<page, html_content, details>>
tableVars == <<df_input, url_column, df, row_pos>>
sessionVars == <<queries_generated, generations>>
envVars == <<model_texts>>
moreVars == <<redditVars, tableVars, sessionVars, envVars>>
vars == <<pc, scrapeVars, loopVars, callVars, timeVars, moreVars>>

\* ----------------------------------------------------------------- values

\* A local name that has no value yet, or a value it was assigned.
Unbound == [bound |-> FALSE, text |-> ""]
Bound(t) == [bound |-> TRUE, text |-> t]

\* A dict parsed from JSON: its keys, and the list under 'batch_analysis'.
EmptyDict == [keys |-> {}, batch_analysis |-> <<>>]

\* Python None as a return value, or a returned dict.
None == [is_none |-> TRUE, value |-> EmptyDict]
Returned(d) == [is_none |-> FALSE, value |-> d]

\* Truthiness of the value tested by "if batch_results:", a dict or None.
Truthy(r) == ~r.is_none /\ r.value.keys # {}

\* dict.get('batch_analysis', [])
GetBatchAnalysis(d) ==
    IF "batch_analysis" \in d.keys THEN d.batch_analysis ELSE <<>>

Min(S) == CHOOSE x \in S : \A y \in S : x <= y
Max(S) == CHOOSE x \in S : \A y \in S : x >= y

\* The i-th character of a text, Python's s[i-1].
CharAt(s, i) == SubSeq(s, i, i)

\* The texts of at most n characters over an alphabet of one-character texts.
RECURSIVE TextsUpTo(_, _)
TextsUpTo(alphabet, n) ==
    IF n = 0 THEN {""}
    ELSE LET shorter == TextsUpTo(alphabet, n - 1)
         IN  shorter \cup {s \o c : s \in shorter, c \in alphabet}

(***************************************************************************)
(* Text operations of Python used by both programs.                        *)
(***************************************************************************)

\* sub in s.
Contains(s, sub) ==
    \E i \in 1..(Len(s) - Len(sub) + 1) : SubSeq(s, i, i + Len(sub) - 1) = sub

\* s.find(sub, start), positions counted from 1 and 0 for no occurrence.
FindFrom(s, sub, start) ==
    LET hits == {i \in start..(Len(s) - Len(sub) + 1) :
                     SubSeq(s, i, i + Len(sub) - 1) = sub}
    IN  IF hits = {} THEN 0 ELSE Min(hits)

\* s.replace(old, new) for a non-empty old: left to right, not overlapping.
RECURSIVE str_replace(_, _, _)
str_replace(s, old, new) ==
    LET i == FindFrom(s, old, 1)
    IN  IF i = 0 THEN s
        ELSE SubSeq(s, 1, i - 1) \o new
                 \o str_replace(SubSeq(s, i + Len(old), Len(s)), old, new)

\* s.split(sep) for a non-empty sep, as the list of pieces.
RECURSIVE str_split(_, _)
str_split(s, sep) ==
    LET i == FindFrom(s, sep, 1)
    IN  IF i = 0 THEN <<s>>
        ELSE <<SubSeq(s, 1, i - 1)>>
                 \o str_split(SubSeq(s, i + Len(sep), Len(s)), sep)

\* s.lower() over the ASCII letters.
UpperLetters == "ABCDEFGHIJKLMNOPQRSTUVWXYZ"
LowerLetters == "abcdefghijklmnopqrstuvwxyz"
lower_char(c) ==
    LET at == {i \in 1..Len(UpperLetters) : CharAt(UpperLetters, i) = c}
    IN  IF at = {} THEN c ELSE CharAt(LowerLetters, Min(at))
RECURSIVE lower(_)
lower(s) ==
    IF Len(s) = 0 THEN ""
    ELSE IF Len(s) = 1 THEN lower_char(s)
    ELSE lower(SubSeq(s, 1, Len(s) \div 2))
             \o lower(SubSeq(s, Len(s) \div 2 + 1, Len(s)))

Digits == "0123456789"
IsDigit(c) == \E i \in 1..Len(Digits) : CharAt(Digits, i) = c
DigitValue(c) == Min({i \in 1..Len(Digits) : CharAt(Digits, i) = c}) - 1
AllDigits(s) == Len(s) > 0 /\ \A i \in 1..Len(s) : IsDigit(CharAt(s, i))
RECURSIVE int_of(_)
int_of(s) ==
    IF s = "" THEN 0
    ELSE 10 * int_of(SubSeq(s, 1, Len(s) - 1)) + DigitValue(CharAt(s, Len(s)))

\* re.search(name + r'="([^"]*)"', html): the first place where name=" is
\* followed by a closing quote, and the text between the quotes.  [^"]* can
\* not step over a quote, so the group ends at the first quote after the
\* opening one.
attr_search(html, name) ==
    LET open == name \o "=\""
        i == FindFrom(html, open, 1)
        from == i + Len(open)
        j == FindFrom(html, "\"", from)
    IN  IF i = 0 \/ j = 0 THEN [found |-> FALSE, group |-> ""]
        ELSE [found |-> TRUE, group |-> SubSeq(html, from, j - 1)]

\* ------------------------------------------------------------ scrape_content

\* The URLs a user enters: urls_to_process is a non-empty list of them, or
\* empty when nothing was entered.
UrlName(i) == "http://u" \o ToString(i)
UrlLists == {[i \in 1..n |-> UrlName(i)] : n \in 0..MaxUrls}

\* str(e) of the exception requests.get or raise_for_status raised.
FetchErrors == {"timed out", "404 Client Error", "Connection refused"}

\* f"Error scraping {url}: {str(e)}"
ErrorString(url, e) == "Error scraping " \o url \o ": " \o e

\* The visible text of the page at url after the whitespace clean-up of lines
\* 115-123: an ordinary page, or a page whose whole text reads
\* like the scraper's own error line.
PageTexts(url) == {"page text of " \o url, ErrorString(url, "timed out")}

\* What one requests.get of url can do: answer with a page, or raise.
FetchOutcomes(url) ==
    [kind : {"ok"}, text : PageTexts(url)]
        \cup [kind : {"raise"}, text : FetchErrors]

\* text[:5000] if len(text) > 5000 else text
Truncate(text) ==
    IF Len(text) > content_limit THEN SubSeq(text, 1, content_limit) ELSE text

\* A variant of scrape_content that returns the bare str(e) on a failure.
scrape_content_bare(url, outcome) ==
    IF outcome.kind = "ok" THEN Truncate(outcome.text) ELSE outcome.text

\* scrape_content(url), given what the fetch did.
scrape_content(url, outcome) ==
    IF outcome.kind = "ok" THEN Truncate(outcome.text)
    ELSE ErrorString(url, outcome.text)

\* ------------------------------------------------ analyze_content_gaps_batch

\* str.strip(): leading and trailing whitespace removed.
Whitespace == {" ", "\n"}
RECURSIVE lstrip(_)
lstrip(s) ==
    IF Len(s) > 0 /\ CharAt(s, 1) \in Whitespace
    THEN lstrip(SubSeq(s, 2, Len(s))) ELSE s
RECURSIVE rstrip(_)
rstrip(s) ==
    IF Len(s) > 0 /\ CharAt(s, Len(s)) \in Whitespace
    THEN rstrip(SubSeq(s, 1, Len(s) - 1)) ELSE s
strip(s) == rstrip(lstrip(s))

\* The positions after i where text has a '}'.
ClosersAfter(text, i) == {j \in (i + 1)..Len(text) : CharAt(text, j) = "}"}

\* The positions where a match of \{.*\} can start: a '{' with a '}' after it.
MatchStarts(text) ==
    {i \in 1..Len(text) : CharAt(text, i) = "{" /\ ClosersAfter(text, i) # {}}

\* A variant of re_search whose ".*" is lazy (the pattern \{.*?\}).
re_search_lazy(text) ==
    IF MatchStarts(text) = {} THEN Unbound
    ELSE LET i == Min(MatchStarts(text))
         IN  Bound(SubSeq(text, i, Min(ClosersAfter(text, i))))

\* re.search(r'\{.*\}', text, re.DOTALL): the leftmost position where the
\* pattern matches, and from there the longest match, since ".*" is greedy and
\* with DOTALL crosses line ends.  Unbound stands for "no match" (None).
re_search(text) ==
    IF MatchStarts(text) = {} THEN Unbound
    ELSE LET i == Min(MatchStarts(text))
         IN  Bound(SubSeq(text, i, Max(ClosersAfter(text, i))))

\* The rows a well-formed answer carries for the queries of the prompt.
Rows(queries_batch) ==
    [i \in 1..Len(queries_batch) |-> [query |-> queries_batch[i]]]

\* A JSON literal in the place of a number: null, an integer, or a decimal
\* fraction.  The value json.loads gives it is its type, its whole part and
\* the digits of its fraction.
JsonNull == [type |-> "null", val |-> 0, frac |-> ""]
JsonUnsigned(lit) ==
    LET parts == str_split(lit, ".")
    IN  IF AllDigits(lit)
        THEN [ok |-> TRUE,
              value |-> [type |-> "int", val |-> int_of(lit), frac |-> ""]]
        ELSE IF Len(parts) = 2 /\ AllDigits(parts[1]) /\ AllDigits(parts[2])
        THEN [ok |-> TRUE,
              value |-> [type |-> "float", val |-> int_of(parts[1]),
                         frac |-> parts[2]]]
        ELSE [ok |-> FALSE, value |-> JsonNull]
json_literal(lit) ==
    LET u == JsonUnsigned(SubSeq(lit, 2, Len(lit)))
    IN  IF lit = "null" THEN [ok |-> TRUE, value |-> JsonNull]
        ELSE IF Len(lit) > 1 /\ CharAt(lit, 1) = "-"
        THEN [ok |-> u.ok, value |-> [u.value EXCEPT !.val = 0 - @]]
        ELSE JsonUnsigned(lit)

\* In a response the letter S opens a row of batch_analysis, written for the
\* next query of the prompt (0 names a query the prompt did not hold); the
\* JSON literal of the row's coverage_score follows, or nothing when the row
\* has no coverage_score.  Rows are separated by commas inside one pair of
\* braces.
RowTokens(text) == str_split(SubSeq(text, 2, Len(text) - 1), ",")
IsScoredAnswer(text) ==
    /\ Len(text) >= 3
    /\ CharAt(text, 1) = "{"
    /\ CharAt(text, Len(text)) = "}"
    /\ \A i \in 1..Len(RowTokens(text)) :
           LET token == RowTokens(text)[i]
           IN  /\ Len(token) >= 1
               /\ CharAt(token, 1) = "S"
               /\ \/ Len(token) = 1
                  \/ json_literal(SubSeq(token, 2, Len(token))).ok
ScoredRows(text, queries_batch) ==
    [i \in 1..Len(RowTokens(text)) |->
        LET token == RowTokens(text)[i]
            query == IF i <= Len(queries_batch) THEN queries_batch[i] ELSE 0
        IN  IF Len(token) = 1 THEN [query |-> query]
            ELSE [query |-> query,
                  coverage_score |->
                      json_literal(SubSeq(token, 2, Len(token))).value]]

\* json.loads(text).  In a response the letter F stands for the body
\* '"batch_analysis": [...]' with one row per query of the prompt, so "{F}" is
\* the answer the prompt asks for and "{}" is the empty object; an answer of
\* rows written with S carries scores; every other text over the letters
\* used here is not JSON and raises JSONDecodeError.
json_loads(text, queries_batch) ==
    IF text = "{F}"
    THEN [ok |-> TRUE,
          value |-> [keys |-> {"batch_analysis"},
                     batch_analysis |-> Rows(queries_batch)]]
    ELSE IF text = "{}" THEN [ok |-> TRUE, value |-> EmptyDict]
    ELSE IF IsScoredAnswer(text)
    THEN [ok |-> TRUE,
          value |-> [keys |-> {"batch_analysis"},
                     batch_analysis |-> ScoredRows(text, queries_batch)]]
    ELSE [ok |-> FALSE, value |-> EmptyDict]

\* response.text of the model's answers: the answer asked for, the same with
\* commentary and whitespace around it, the empty object, text with no
\* braces, and braces around text that is not JSON.
ResponseTexts == {"{F}", " x{F}x\n", "{}", "x", "{x}"}

\* What one model call (lines 175-176) can do: give a response whose text is
\* read, raise a ValueError (generate_content or the response.text accessor),
\* or raise any other exception (transport, authentication, quota).
ModelOutcomes ==
    [kind : {"text"}, text : model_texts]
        \cup [kind : {"ValueError", "Exception"}, text : {""}]

\* The try body (lines 175-187) on one outcome: how it ends ("return", or
\* the exception that leaves it) and what it has bound by then.
TryBody(o, old_raw, old_json, queries_batch) ==
    IF o.kind # "text"
    THEN [ends |-> o.kind, raw |-> old_raw, json |-> old_json,
          value |-> EmptyDict]
    ELSE LET raw == strip(o.text)
             match == re_search(raw)
             parsed == json_loads(match.text, queries_batch)
         IN  IF ~match.bound
             THEN [ends |-> "ValueError", raw |-> Bound(raw),
                   json |-> old_json, value |-> EmptyDict]
             ELSE IF ~parsed.ok
             THEN [ends |-> "JSONDecodeError", raw |-> Bound(raw),
                   json |-> match, value |-> EmptyDict]
             ELSE [ends |-> "return", raw |-> Bound(raw), json |-> match,
                   value |-> parsed.value]

\* A variant of Retryable that also retries every other exception.
RetryableAll == {"ValueError", "JSONDecodeError", "Exception"}

\* except (json.JSONDecodeError, ValueError): JSONDecodeError is a ValueError.
Retryable == {"ValueError", "JSONDecodeError"}

\* A variant of MayRetry that is off by one.
MayRetryOffByOne(n) == n < max_retries

\* if attempt < max_retries - 1 (line 191): attempt n is not the last one.
MayRetry(n) == n < max_retries - 1

\* A variant of RetryDelay that grows linearly with the attempt.
RetryDelayLinear(n) == retry_delay * (n + 1)

\* time.sleep(2) on line 192, before the attempt after attempt n.
RetryDelay(n) == retry_delay

\* ------------------------------------------------------------ the batch loop

\* math.ceil(n / d) for integers n >= 0 and d > 0.
math_ceil(n, d) == IF n % d = 0 THEN n \div d ELSE n \div d + 1

\* A variant of NumBatches that rounds down.
NumBatchesFloor(n) == n \div batch_size

\* math.ceil(len(queries) / batch_size)
NumBatches(n) == math_ceil(n, batch_size)

\* min((batch_num + 1) * batch_size, len(queries))
EndIdx(b, n) ==
    IF (b + 1) * batch_size < n THEN (b + 1) * batch_size ELSE n

\* queries[start_idx:end_idx] for batch b, start_idx = b * batch_size.
BatchSlice(queries, b) ==
    SubSeq(queries, b * batch_size + 1, EndIdx(b, Len(queries)))

\* Query lists of n items; the item at position i is named i.
QueryList(n) == [i \in 1..n |-> i]

RECURSIVE Concat(_)
Concat(ss) == IF ss = <<>> THEN <<>> ELSE Head(ss) \o Concat(Tail(ss))

\* all_query_analyses of the results display (lines 308-310).
AllQueryAnalyses(results) ==
    Concat([k \in 1..Len(results) |-> GetBatchAnalysis(results[k])])

\* The 'query' column of results_df (line 312), top to bottom.
DisplayedQueries(results) ==
    LET rows == AllQueryAnalyses(results)
    IN  [i \in 1..Len(rows) |-> rows[i].query]

\* The queries the page lists as skipped.  The handler keeps no such list:
\* a batch whose call gave None or a falsy dict adds nothing to
\* all_analysis_results (lines 294-295), the messages of lines 194 and 201
\* name no query, and the display reads analysis_results alone (305-313).
SkippedList == <<>>

\* Python None as the value of html_content, or the text fetched.
NoHtml == [is_none |-> TRUE, text |-> ""]
Html(t) == [is_none |-> FALSE, text |-> t]

\* The six fields before extract_reddit_details has run.
NoDetails ==
    [reddit_title |-> "", reddit_posted_time |-> "", reddit_time_ago |-> "",
     reddit_comments_count |-> "", reddit_score |-> "",
     reddit_is_archived |-> ""]

\* A table without columns and rows.
EmptyTable == [columns |-> <<>>, cells |-> <<>>]

\* The variables of reddit_scrapper.py while app.py runs, and the reverse.
RedditIdle ==
    /\ page = <<>>
    /\ html_content = NoHtml
    /\ details = NoDetails
TableIdle ==
    /\ df_input = EmptyTable
    /\ url_column = ""
    /\ df = EmptyTable
    /\ row_pos = 0
SessionIdle ==
    /\ queries_generated = FALSE
    /\ generations = 0

\* The locals of analyze_content_gaps_batch outside a call.
CallIdle ==
    /\ attempt = 0
    /\ raw_text = Unbound
    /\ json_text = Unbound
    /\ trace = <<>>
    /\ sleeps = <<>>
    /\ failure = "none"
    /\ ret = None

\* -------------------------------------------- Spec: the Scrape & Analyze run

\* The page as it stands when the button is shown (line 226 requires a
\* non-empty query list) and before it is pressed; analysis_results is the
\* empty list of lines 213 and 223.
Init ==
    /\ pc = "idle"
    /\ urls_to_process \in UrlLists
    /\ fetched = <<>>
    /\ scraped_contents = <<>>
    /\ generated_queries \in {QueryList(n) : n \in 1..MaxQueries}
    /\ batch_num = 0
    /\ batches = <<>>
    /\ batch_queries = <<>>
    /\ all_analysis_results = <<>>
    /\ analysis_results = <<>>
    /\ batch_sleeps = <<>>
    /\ CallIdle
    /\ age = 0
    /\ reddit_time_ago = "Not found"
    /\ RedditIdle
    /\ TableIdle
    /\ queries_generated = TRUE
    /\ generations = 0
    /\ model_texts = ResponseTexts

\* Line 226: the section that holds the "Scrape & Analyze" button is drawn.
ButtonShown == queries_generated /\ generated_queries # <<>>

\* Lines 260-266: the button is pressed with URLs entered.
Click ==
    /\ pc = "idle"
    /\ ButtonShown
    /\ urls_to_process # <<>>
    /\ pc' = "scrape"
    /\ scraped_contents' = <<>>
    /\ UNCHANGED <<urls_to_process, fetched, loopVars, callVars, timeVars, moreVars>>

\* Lines 260-261, 302-303: the button is pressed with no URL entered.
ClickNoUrls ==
    /\ pc = "idle"
    /\ ButtonShown
    /\ urls_to_process = <<>>
    /\ pc' = "warned"
    /\ UNCHANGED <<scrapeVars, loopVars, callVars, timeVars, moreVars>>

\* Lines 269-273: one round of the scraping loop.
ScrapeNext ==
    /\ pc = "scrape"
    /\ Len(scraped_contents) < Len(urls_to_process)
    /\ LET url == urls_to_process[Len(scraped_contents) + 1]
       IN  \E o \in FetchOutcomes(url) :
             /\ fetched' = Append(fetched, o)
             /\ scraped_contents' =
                    Append(scraped_contents, scrape_content(url, o))
    /\ UNCHANGED <<pc, urls_to_process, loopVars, callVars, timeVars, moreVars>>

\* Lines 275-285: the scraping loop is over, the batch loop is set up.
ScrapeDone ==
    /\ pc = "scrape"
    /\ Len(scraped_contents) = Len(urls_to_process)
    /\ pc' = "batch"
    /\ batch_num' = 0
    /\ all_analysis_results' = <<>>
    /\ UNCHANGED <<scrapeVars, generated_queries, batches, batch_queries,
                   analysis_results, batch_sleeps, callVars, timeVars, moreVars>>

\* Lines 287-293 and 129-173: the slice of batch batch_num is cut and
\* analyze_content_gaps_batch is entered with it.  The early return of lines
\* 130-131 needs an empty scraped_contents, which line 261 rules out.
BatchStart ==
    /\ pc = "batch"
    /\ batch_num < NumBatches(Len(generated_queries))
    /\ batch_queries' = BatchSlice(generated_queries, batch_num)
    /\ batches' = Append(batches, batch_queries')
    /\ scraped_contents # <<>>
    /\ pc' = "attempt"
    /\ UNCHANGED <<scrapeVars, generated_queries, batch_num,
                   all_analysis_results, analysis_results, batch_sleeps,
                   callVars, timeVars, moreVars>>

\* The retry loop is "for attempt in range(max_retries)": every action of it
\* requires attempt < max_retries.  The loop never runs out, since the last
\* attempt returns or raises, so line 204 is not reached.

\* Lines 175-187: a model call whose response parses; the dict is returned.
AttemptReturns ==
    /\ pc = "attempt"
    /\ attempt < max_retries
    /\ \E o \in ModelOutcomes :
         LET t == TryBody(o, raw_text, json_text, batch_queries)
         IN  /\ t.ends = "return"
             /\ raw_text' = t.raw
             /\ json_text' = t.json
             /\ trace' = Append(trace, [call |-> o.kind, ends |-> t.ends])
             /\ ret' = Returned(t.value)
    /\ pc' = "returned"
    /\ UNCHANGED <<scrapeVars, loopVars, attempt, sleeps, failure, timeVars, moreVars>>

\* Lines 189-192: a ValueError or JSONDecodeError before the last attempt:
\* a warning, a sleep, and the next attempt.
AttemptRetries ==
    /\ pc = "attempt"
    /\ attempt < max_retries
    /\ MayRetry(attempt)
    /\ \E o \in ModelOutcomes :
         LET t == TryBody(o, raw_text, json_text, batch_queries)
         IN  /\ t.ends \in Retryable
             /\ raw_text' = t.raw
             /\ json_text' = t.json
             /\ trace' = Append(trace, [call |-> o.kind, ends |-> t.ends])
    /\ sleeps' = Append(sleeps, RetryDelay(attempt))
    /\ attempt' = attempt + 1
    /\ UNCHANGED <<pc, scrapeVars, loopVars, failure, ret, timeVars, moreVars>>

\* Lines 189-198: a ValueError or JSONDecodeError on the last attempt, with
\* raw_text bound: the error is reported, raw_text shown, None returned.
AttemptGivesUp ==
    /\ pc = "attempt"
    /\ attempt < max_retries
    /\ ~MayRetry(attempt)
    /\ \E o \in ModelOutcomes :
         LET t == TryBody(o, raw_text, json_text, batch_queries)
         IN  /\ t.ends \in Retryable
             /\ t.raw.bound
             /\ raw_text' = t.raw
             /\ json_text' = t.json
             /\ trace' = Append(trace, [call |-> o.kind, ends |-> t.ends])
    /\ failure' = "exhausted"
    /\ ret' = None
    /\ pc' = "returned"
    /\ UNCHANGED <<scrapeVars, loopVars, attempt, sleeps, timeVars, moreVars>>

\* Lines 189-197: the same with raw_text never bound (every attempt raised
\* before line 176 assigned it): st.code(raw_text) raises UnboundLocalError
\* inside the handler, which no clause of the try catches, so it leaves the
\* function and ends the run.
AttemptGivesUpUnbound ==
    /\ pc = "attempt"
    /\ attempt < max_retries
    /\ ~MayRetry(attempt)
    /\ \E o \in ModelOutcomes :
         LET t == TryBody(o, raw_text, json_text, batch_queries)
         IN  /\ t.ends \in Retryable
             /\ ~t.raw.bound
             /\ trace' = Append(trace, [call |-> o.kind, ends |-> t.ends])
    /\ failure' = "exhausted"
    /\ pc' = "raised"
    /\ UNCHANGED <<scrapeVars, loopVars, attempt, raw_text, json_text,
                   sleeps, ret, timeVars, moreVars>>

\* Lines 199-202: any other exception: reported, None returned at once.
AttemptApiError ==
    /\ pc = "attempt"
    /\ attempt < max_retries
    /\ \E o \in ModelOutcomes :
         LET t == TryBody(o, raw_text, json_text, batch_queries)
         IN  /\ t.ends = "Exception"
             /\ trace' = Append(trace, [call |-> o.kind, ends |-> t.ends])
    /\ failure' = "api_error"
    /\ ret' = None
    /\ pc' = "returned"
    /\ UNCHANGED <<scrapeVars, loopVars, attempt, raw_text, json_text,
                   sleeps, timeVars, moreVars>>

\* Lines 293-298: back in the loop: a truthy result is appended, the loop
\* sleeps unless this was the last batch, and moves on.  The locals of the
\* call are gone.
AfterBatch ==
    /\ pc = "returned"
    /\ all_analysis_results' =
          IF Truthy(ret) THEN Append(all_analysis_results, ret.value)
          ELSE all_analysis_results
    /\ batch_sleeps' =
          IF batch_num < NumBatches(Len(generated_queries)) - 1
          THEN Append(batch_sleeps, batch_delay) ELSE batch_sleeps
    /\ batch_num' = batch_num + 1
    /\ pc' = "batch"
    /\ attempt' = 0
    /\ raw_text' = Unbound
    /\ json_text' = Unbound
    /\ trace' = <<>>
    /\ sleeps' = <<>>
    /\ failure' = "none"
    /\ ret' = None
    /\ UNCHANGED <<scrapeVars, generated_queries, batches, batch_queries,
                   analysis_results, timeVars, moreVars>>

\* Line 300: the loop is over, the results are stored; lines 305-313 show them.
LoopDone ==
    /\ pc = "batch"
    /\ ~(batch_num < NumBatches(Len(generated_queries)))
    /\ analysis_results' = all_analysis_results
    /\ pc' = "done"
    /\ UNCHANGED <<scrapeVars, generated_queries, batch_num, batches,
                   batch_queries, all_analysis_results, batch_sleeps,
                   callVars, timeVars, moreVars>>

Next ==
    \/ Click
    \/ ClickNoUrls
    \/ ScrapeNext
    \/ ScrapeDone
    \/ BatchStart
    \/ AttemptReturns
    \/ AttemptRetries
    \/ AttemptGivesUp
    \/ AttemptGivesUpUnbound
    \/ AttemptApiError
    \/ AfterBatch
    \/ LoopDone

Spec == Init /\ [][Next]_vars

\* ------------------------------------------- SpecPlan: the slicing alone

\* The batch loop of lines 281-290 on a query list of any length from 0,
\* without the analysis call, which does not touch the slicing.
InitPlan ==
    /\ pc = "plan"
    /\ urls_to_process = <<>>
    /\ fetched = <<>>
    /\ scraped_contents = <<>>
    /\ generated_queries \in {QueryList(n) : n \in 0..MaxPlanLen}
    /\ batch_num = 0
    /\ batches = <<>>
    /\ batch_queries = <<>>
    /\ all_analysis_results = <<>>
    /\ analysis_results = <<>>
    /\ batch_sleeps = <<>>
    /\ CallIdle
    /\ age = 0
    /\ reddit_time_ago = "Not found"
    /\ RedditIdle
    /\ TableIdle
    /\ SessionIdle
    /\ model_texts = ResponseTexts

\* Lines 287-290: one round of the loop cuts one slice.
PlanSlice ==
    /\ pc = "plan"
    /\ batch_num < NumBatches(Len(generated_queries))
    /\ batch_queries' = BatchSlice(generated_queries, batch_num)
    /\ batches' = Append(batches, batch_queries')
    /\ batch_num' = batch_num + 1
    /\ UNCHANGED <<pc, scrapeVars, generated_queries, all_analysis_results,
                   analysis_results, batch_sleeps, callVars, timeVars, moreVars>>

\* Line 287: range(num_batches) is exhausted.
PlanDone ==
    /\ pc = "plan"
    /\ ~(batch_num < NumBatches(Len(generated_queries)))
    /\ pc' = "planned"
    /\ UNCHANGED <<scrapeVars, loopVars, callVars, timeVars, moreVars>>

NextPlan == PlanSlice \/ PlanDone

SpecPlan == InitPlan /\ [][NextPlan]_vars

\* ------------------------------- SpecExtract: from response to JSON text

\* The characters a response is made of here: braces, a letter, a blank.
RawAlphabet == {"{", "}", "x", " "}
RawResponses == TextsUpTo(RawAlphabet, MaxRawLen)

InitExtract ==
    /\ pc = "extract"
    /\ urls_to_process = <<>>
    /\ fetched = <<>>
    /\ scraped_contents = <<>>
    /\ generated_queries = <<>>
    /\ batch_num = 0
    /\ batches = <<>>
    /\ batch_queries = <<>>
    /\ all_analysis_results = <<>>
    /\ analysis_results = <<>>
    /\ batch_sleeps = <<>>
    /\ CallIdle
    /\ age = 0
    /\ reddit_time_ago = "Not found"
    /\ RedditIdle
    /\ TableIdle
    /\ SessionIdle
    /\ model_texts = ResponseTexts

\* Lines 176-184: the response text is stripped and searched; the match is
\* the text json.loads is given.
ExtractMatch ==
    /\ pc = "extract"
    /\ \E t \in RawResponses :
         /\ re_search(strip(t)).bound
         /\ raw_text' = Bound(strip(t))
         /\ json_text' = re_search(strip(t))
    /\ pc' = "matched"
    /\ UNCHANGED <<scrapeVars, loopVars, attempt, trace, sleeps, failure,
                   ret, timeVars, moreVars>>

\* Lines 176-182: no match, ValueError is raised and nothing is parsed.
ExtractNoMatch ==
    /\ pc = "extract"
    /\ \E t \in RawResponses :
         /\ ~re_search(strip(t)).bound
         /\ raw_text' = Bound(strip(t))
    /\ pc' = "nomatch"
    /\ UNCHANGED <<scrapeVars, loopVars, attempt, json_text, trace, sleeps,
                   failure, ret, timeVars, moreVars>>

NextExtract == ExtractMatch \/ ExtractNoMatch

SpecExtract == InitExtract /\ [][NextExtract]_vars

\* ------------------------------------------ SpecTime: the "time ago" label

\* A variant of time_ago that writes "days" for every day count.
time_ago_plural(a) ==
    LET total_days == a \div 86400
    IN  IF total_days >= 365
        THEN ToString(math_ceil(total_days, 365)) \o " yr. ago"
        ELSE IF total_days >= 30
        THEN ToString(math_ceil(total_days, 30)) \o " mo. ago"
        ELSE IF total_days >= 1
        THEN ToString(total_days) \o " days ago"
        ELSE IF a >= 3600 THEN ToString(a \div 3600) \o " hr. ago"
        ELSE IF a >= 60 THEN ToString(a \div 60) \o " min. ago"
        ELSE "now"

\* Lines 93-113 of reddit_scrapper.py for diff = now - dt of a whole seconds,
\* a >= 0: total_seconds is a and diff.days is a // 86400.  A fraction of
\* a second in diff changes no comparison and no quotient below.
time_ago(a) ==
    LET total_days == a \div 86400
    IN  IF total_days >= 365
        THEN ToString(math_ceil(total_days, 365)) \o " yr. ago"
        ELSE IF total_days >= 30
        THEN ToString(math_ceil(total_days, 30)) \o " mo. ago"
        ELSE IF total_days >= 1
        THEN ToString(total_days) \o " day"
                 \o (IF total_days > 1 THEN "s" ELSE "") \o " ago"
        ELSE IF a >= 3600 THEN ToString(a \div 3600) \o " hr. ago"
        ELSE IF a >= 60 THEN ToString(a \div 60) \o " min. ago"
        ELSE "now"

\* Ages: every whole number of days up to MaxDays, plus the seconds into the
\* day that sit on and around the rules' thresholds.
SecondsIntoDay == {0, 1, 59, 60, 61, 3599, 3600, 3601, 7199, 7200, 86399}
Ages == {d * 86400 + s : d \in 0..MaxDays, s \in SecondsIntoDay}

InitTime ==
    /\ pc = "time"
    /\ urls_to_process = <<>>
    /\ fetched = <<>>
    /\ scraped_contents = <<>>
    /\ generated_queries = <<>>
    /\ batch_num = 0
    /\ batches = <<>>
    /\ batch_queries = <<>>
    /\ all_analysis_results = <<>>
    /\ analysis_results = <<>>
    /\ batch_sleeps = <<>>
    /\ CallIdle
    /\ age \in Ages
    /\ reddit_time_ago = "Not found"
    /\ RedditIdle
    /\ TableIdle
    /\ SessionIdle
    /\ model_texts = ResponseTexts

\* Lines 92-113: the label is computed from the age.
ComputeTimeAgo ==
    /\ pc = "time"
    /\ reddit_time_ago' = time_ago(age)
    /\ pc' = "labelled"
    /\ UNCHANGED <<scrapeVars, loopVars, callVars, age, moreVars>>

NextTime == ComputeTimeAgo

SpecTime == InitTime /\ [][NextTime]_vars

\* ====================================================================
\* Claims
\* ====================================================================

\* The queries of a list of slices, as a set.
QueriesOf(slice) == {slice[i] : i \in 1..Len(slice)}

\* C1 (SpecPlan): for a query list of length N >= 0 and batch size 10 the
\* loop forms exactly ceil(N/10) batches, that is the least number of
\* batches of 10 that hold N queries; each batch is a contiguous slice of 1
\* to 10 queries, no query is in two batches, and the batches so far
\* concatenate to a prefix of the list and, when the loop ends, to the list
\* itself.  N = 0 gives no batch.
C1_BatchesPartitionQueries ==
    LET n == Len(generated_queries)
        done == Concat(batches)
    IN  /\ \A k \in 1..Len(batches) :
              /\ Len(batches[k]) \in 1..10
              /\ \A i \in 1..Len(batches[k]) :
                    batches[k][i] = generated_queries[(k - 1) * 10 + i]
        /\ \A k, l \in 1..Len(batches) :
              k # l => QueriesOf(batches[k]) \cap QueriesOf(batches[l]) = {}
        /\ Len(done) <= n
        /\ done = SubSeq(generated_queries, 1, Len(done))
        /\ pc = "planned" =>
              /\ done = generated_queries
              /\ Len(batches) * 10 >= n
              /\ (Len(batches) - 1) * 10 < n
              /\ n = 0 => batches = <<>>

\* 23 queries were cut into batches of 10, 10 and 3.
C1_Witness ==
    /\ pc = "planned"
    /\ Len(generated_queries) = 23
    /\ Len(batches) = 3
    /\ Len(batches[1]) = 10 /\ Len(batches[2]) = 10 /\ Len(batches[3]) = 3

\* Every model call of the current batch so far returned text that could
\* not be extracted or parsed.
AllUnparseable ==
    \A i \in 1..Len(trace) :
        /\ trace[i].call = "text"
        /\ trace[i].ends \in {"ValueError", "JSONDecodeError"}

\* C2 (Spec): no batch sees a 4th model call, and while every model call of
\* a batch returns unparseable text the function goes on to a 3rd call, ends
\* right after it, returns None and reports the retries as exhausted; it
\* returns nothing before the 3rd call and never a parsed result.
C2_ThreeCallsThenNone ==
    /\ Len(trace) <= 3
    /\ AllUnparseable =>
          /\ pc # "raised"
          /\ Len(trace) = 3 => pc = "returned"
          /\ pc = "returned" =>
                Len(trace) = 3 /\ ret = None /\ failure = "exhausted"

\* Three calls returned unparseable text and the function returned None.
C2_Witness ==
    /\ pc = "returned"
    /\ Len(trace) = 3
    /\ AllUnparseable
    /\ ret = None

\* C3 (Spec), as claimed: analyze_content_gaps_batch never raises to its
\* caller, whatever its model calls do.
C3_NeverRaises == pc # "raised"

\* C4 (Spec): a model call that fails with an exception other than
\* ValueError (the class the code retries as malformed output) is the last
\* model call of its batch, on whichever attempt it occurs: the function
\* returns None at once and reports an API error, a report that exhausted
\* malformed-output retries never get, and those never get this one.
C4_ApiErrorNotRetried ==
    /\ \A i \in 1..Len(trace) :
          (trace[i].call = "Exception") =>
              /\ i = Len(trace)
              /\ pc = "returned"
              /\ ret = None
              /\ failure = "api_error"
    /\ failure = "api_error" =>
          Len(trace) > 0 /\ trace[Len(trace)].call = "Exception"
    /\ failure = "exhausted" =>
          /\ Len(trace) = 3
          /\ \A i \in 1..3 : trace[i].call # "Exception"

\* The second model call of a batch failed with an API error after a first
\* malformed answer, and the function returned.
C4_Witness ==
    /\ pc = "returned"
    /\ Len(trace) = 2
    /\ trace[1].call = "text"
    /\ trace[2].call = "Exception"
    /\ failure = "api_error"

\* The failed attempts of the current call, by position.
FailedAttempts ==
    {i \in 1..Len(trace) : trace[i].ends \in {"ValueError", "JSONDecodeError"}}

\* C5 (Spec), as claimed: the delay before the 3rd attempt is strictly
\* greater than the delay before the 2nd.
C5_DelayIncreases ==
    /\ Len(sleeps) >= 2 => sleeps[2] > sleeps[1]
    /\ Len(sleeps) = Cardinality(FailedAttempts \ {3})

\* C5 (Spec), amended: every delay between attempts is the same 2 seconds,
\* one delay follows each failed attempt but the 3rd, and none follows the
\* 3rd (final) failed attempt.
C5_ConstantDelay ==
    /\ \A i \in 1..Len(sleeps) : sleeps[i] = 2
    /\ Len(sleeps) = Cardinality(FailedAttempts \ {3})
    /\ Len(sleeps) <= 2

\* Three attempts failed, two delays were slept, the function has returned.
C5_Witness ==
    /\ pc = "returned"
    /\ FailedAttempts = {1, 2, 3}
    /\ Len(sleeps) = 2

\* How often q occurs in a list.
Occurrences(list, q) == Cardinality({i \in 1..Len(list) : list[i] = q})

\* C6 (Spec), as claimed: when the run has finished, every query of the
\* generated list is in exactly one of the displayed rows and the skipped
\* list, never both and never neither.
C6_EveryQueryReportedOnce ==
    pc = "done" =>
        \A q \in QueriesOf(generated_queries) :
            Occurrences(DisplayedQueries(analysis_results), q)
                + Occurrences(SkippedList, q) = 1

\* The positions of character c in a text.
Positions(text, c) == {i \in 1..Len(text) : CharAt(text, i) = c}

\* Scanning text from position i with depth open braces pending: the
\* position where the depth returns to 0, or 0 when it never does.
RECURSIVE BalancedEnd(_, _, _)
BalancedEnd(text, i, depth) ==
    IF i > Len(text) THEN 0
    ELSE LET c == CharAt(text, i)
             d == IF c = "{" THEN depth + 1
                  ELSE IF c = "}" THEN depth - 1 ELSE depth
         IN  IF d = 0 THEN i ELSE BalancedEnd(text, i + 1, d)

\* C7 (SpecExtract), as claimed: the text handed to the JSON parser is the
\* first balanced span: from the first '{' to the '}' that closes it.
C7_FirstBalancedSpan ==
    pc = "matched" =>
        LET raw == raw_text.text
            first == Min(Positions(raw, "{"))
            close == BalancedEnd(raw, first, 0)
        IN  /\ close > 0
            /\ json_text.text = SubSeq(raw, first, close)

\* C7 (SpecExtract), amended: the text handed to the JSON parser runs from
\* the first '{' of the response to its last '}', with everything between
\* them; and no text is handed over exactly when no '}' follows the first
\* '{'.
C7_FirstToLastBrace ==
    LET raw == raw_text.text
        opens == Positions(raw, "{")
        closes == Positions(raw, "}")
    IN  /\ pc = "matched" =>
              /\ opens # {} /\ closes # {}
              /\ Min(opens) < Max(closes)
              /\ json_text.bound
              /\ json_text.text = SubSeq(raw, Min(opens), Max(closes))
        /\ pc = "nomatch" =>
              \/ opens = {}
              \/ \A j \in closes : j < Min(opens)

\* The response "{}x{}" went to the parser whole.
C7_Witness ==
    /\ pc = "matched"
    /\ raw_text.text = "{}x{}"
    /\ json_text.text = "{}x{}"

\* The entries scrape_content gives for url when the fetch fails.
IsErrorMarker(content, url) ==
    \E e \in FetchErrors : content = "Error scraping " \o url \o ": " \o e

\* The scraping loop is over.
Scraped == pc \in {"batch", "attempt", "returned", "raised", "done"}

\* C8 (Spec), as claimed: after the scraping loop there is one entry per
\* URL in input order, and an entry is an error marker exactly when the
\* fetch of its URL failed, so that a marker is told apart from page content.
C8_ErrorMarkerDistinguishable ==
    Scraped =>
        /\ Len(scraped_contents) = Len(urls_to_process)
        /\ \A i \in 1..Len(scraped_contents) :
              IsErrorMarker(scraped_contents[i], urls_to_process[i])
                  <=> fetched[i].kind = "raise"

\* C8 (Spec), amended: the scraping loop fetches the URLs in input order,
\* one entry per fetch, and goes on until every URL has its entry, whatever
\* the fetches did; the batch analysis starts only then and always starts.
\* The entry of a failed fetch is the text "Error scraping <url>: <error>",
\* and the entry of a fetched page is the page's text, also when that text
\* reads like an error line.
C8_OneEntryPerUrl ==
    /\ Len(fetched) = Len(scraped_contents)
    /\ Len(scraped_contents) <= Len(urls_to_process)
    /\ \A i \in 1..Len(scraped_contents) :
          /\ fetched[i].kind = "raise" =>
                /\ IsErrorMarker(scraped_contents[i], urls_to_process[i])
                /\ scraped_contents[i] =
                      "Error scraping " \o urls_to_process[i] \o ": "
                          \o fetched[i].text
          /\ fetched[i].kind = "ok" =>
                scraped_contents[i] = fetched[i].text
    /\ Scraped => Len(scraped_contents) = Len(urls_to_process)
    /\ pc = "scrape" => ENABLED (ScrapeNext \/ ScrapeDone)
    /\ pc = "batch" => ENABLED (BatchStart \/ LoopDone)

\* Two URLs, the first fetch failed, the second gave a page, and the batch
\* analysis that followed has finished.
C8_Witness ==
    /\ pc = "done"
    /\ Len(urls_to_process) = 2
    /\ fetched[1].kind = "raise"
    /\ fetched[2].kind = "ok"
    /\ IsErrorMarker(scraped_contents[1], urls_to_process[1])
    /\ Len(analysis_results) > 0

\* C9 (Spec), as claimed: the batches are analysed in ascending index, every
\* batch is attempted whatever became of the earlier ones, and the rows
\* stored and displayed are in the order of the query list.
C9_EveryBatchInOrder ==
    /\ \A k \in 1..Len(batches) :
          batches[k] = SubSeq(generated_queries, (k - 1) * 10 + 1,
                              IF k * 10 < Len(generated_queries)
                              THEN k * 10 ELSE Len(generated_queries))
    /\ pc \in {"done", "raised"} =>
          Len(batches) * 10 >= Len(generated_queries)
    /\ LET shown == DisplayedQueries(analysis_results)
       IN  \A i, j \in 1..Len(shown) : i < j => shown[i] < shown[j]

\* C10 (SpecTime): the label follows the first matching rule: 365 whole
\* days or more give ceil(days/365) "yr. ago", 30 or more ceil(days/30)
\* "mo. ago", 1 gives "1 day ago", 2 or more the count and "days ago";
\* under a day, 3600 seconds or more give whole hours "hr. ago", 60 or
\* more whole minutes "min. ago", less gives "now".  0 seconds give "now"
\* and 86400 seconds "1 day ago".
C10_TimeAgoRules ==
    pc = "labelled" =>
        LET days == age \div 86400
            label == reddit_time_ago
        IN  /\ days >= 365 =>
                  \E y \in 1..(days \div 365 + 1) :
                      /\ 365 * (y - 1) < days /\ days <= 365 * y
                      /\ label = ToString(y) \o " yr. ago"
            /\ (days >= 30 /\ days < 365) =>
                  \E m \in 1..13 :
                      /\ 30 * (m - 1) < days /\ days <= 30 * m
                      /\ label = ToString(m) \o " mo. ago"
            /\ days = 1 => label = "1 day ago"
            /\ (days >= 2 /\ days < 30) =>
                  label = ToString(days) \o " days ago"
            /\ (days = 0 /\ age >= 3600) =>
                  \E h \in 1..23 :
                      /\ 3600 * h <= age /\ age < 3600 * (h + 1)
                      /\ label = ToString(h) \o " hr. ago"
            /\ (age >= 60 /\ age < 3600) =>
                  \E m \in 1..59 :
                      /\ 60 * m <= age /\ age < 60 * (m + 1)
                      /\ label = ToString(m) \o " min. ago"
            /\ age < 60 => label = "now"
            /\ age = 0 => label = "now"
            /\ age = 86400 => label = "1 day ago"

\* An age of exactly 86400 seconds was labelled "1 day ago".
C10_Witness ==
    /\ pc = "labelled"
    /\ age = 86400
    /\ reddit_time_ago = "1 day ago"

(***************************************************************************)
(* reddit_scrapper.py: the created-timestamp of a post.                    *)
(***************************************************************************)

Pad2(n) == IF n < 10 THEN "0" \o ToString(n) ELSE ToString(n)
Pad4(n) ==
    IF n < 10 THEN "000" \o ToString(n)
    ELSE IF n < 100 THEN "00" \o ToString(n)
    ELSE IF n < 1000 THEN "0" \o ToString(n)
    ELSE ToString(n)

\* What the try block of lines 65-89 yields before the clock is read: the
\* text of reddit_posted_time, or raised when an exception reaches line 115.
Raised == [ok |-> FALSE, posted |-> ""]
Parsed(text) == [ok |-> TRUE, posted |-> text]

\* The days of month m of year y.
days_in_month(y, m) ==
    IF m = 2
    THEN IF y % 4 = 0 /\ (y % 100 # 0 \/ y % 400 = 0) THEN 29 ELSE 28
    ELSE IF m \in {4, 6, 9, 11} THEN 30 ELSE 31

\* datetime.fromisoformat on YYYY-MM-DDTHH:MM:SS with an optional +HH:MM or
\* -HH:MM, followed by replace(tzinfo=None) and strftime: the fields come
\* back as they were written.  Any other text raises ValueError.
fromisoformat(s) ==
    LET shape(t, digits, marks) ==
            /\ \A i \in digits : IsDigit(CharAt(t, i))
            /\ \A m \in marks : CharAt(t, m[1]) = m[2]
        stamp == SubSeq(s, 1, 19)
        zone == SubSeq(s, 20, Len(s))
        stampOk ==
            /\ Len(s) >= 19
            /\ shape(stamp, {1, 2, 3, 4, 6, 7, 9, 10, 12, 13, 15, 16, 18, 19},
                     {<<5, "-">>, <<8, "-">>, <<11, "T">>, <<14, ":">>,
                      <<17, ":">>})
            /\ int_of(SubSeq(stamp, 1, 4)) >= 1
            /\ int_of(SubSeq(stamp, 6, 7)) \in 1..12
            /\ int_of(SubSeq(stamp, 9, 10)) \in
                   1..days_in_month(int_of(SubSeq(stamp, 1, 4)),
                                    int_of(SubSeq(stamp, 6, 7)))
            /\ int_of(SubSeq(stamp, 12, 13)) \in 0..23
            /\ int_of(SubSeq(stamp, 15, 16)) \in 0..59
            /\ int_of(SubSeq(stamp, 18, 19)) \in 0..59
        zoneOk ==
            \/ zone = ""
            \/ /\ Len(zone) = 6
               /\ CharAt(zone, 1) \in {"+", "-"}
               /\ shape(zone, {2, 3, 5, 6}, {<<4, ":">>})
               /\ int_of(SubSeq(zone, 2, 3)) \in 0..23
               /\ int_of(SubSeq(zone, 5, 6)) \in 0..59
    IN  IF stampOk /\ zoneOk
        THEN Parsed(SubSeq(stamp, 1, 10) \o " " \o SubSeq(stamp, 12, 19))
        ELSE Raised

\* Lines 67-84: the ISO branch.
parse_iso(timestamp) ==
    LET z == str_replace(timestamp, "Z", "+00:00")
        clean_timestamp ==
            IF Contains(z, "+0000") THEN str_replace(z, "+0000", "+00:00")
            ELSE z
        parts == str_split(clean_timestamp, ".")
        base_time == parts[1]
        rest == parts[2]
        timezone ==
            IF Contains(rest, "+") THEN "+" \o str_split(rest, "+")[2]
            ELSE IF Contains(rest, "-") THEN "-" \o str_split(rest, "-")[2]
            ELSE "+00:00"
    IN  IF ~Contains(clean_timestamp, ".") THEN fromisoformat(clean_timestamp)
        ELSE IF Len(parts) # 2 THEN Raised   \* unpacking into two names
        ELSE fromisoformat(base_time \o timezone)

\* The civil date of a day counted from 1970-01-01.
civil_from_days(days) ==
    LET z == days + 719468
        era == z \div 146097
        doe == z - era * 146097
        yoe == (doe - doe \div 1460 + doe \div 36524 - doe \div 146096)
                   \div 365
        doy == doe - (365 * yoe + yoe \div 4 - yoe \div 100)
        mp == (5 * doy + 2) \div 153
        d == doy - (153 * mp + 2) \div 5 + 1
        m == IF mp < 10 THEN mp + 3 ELSE mp - 9
        y == yoe + era * 400 + (IF m <= 2 THEN 1 ELSE 0)
    IN  [year |-> y, month |-> m, day |-> d]

\* Lines 87-89: float(timestamp) of a text of digits, fromtimestamp on a
\* host whose local time is UTC, and strftime.  A text float() rejects
\* raises ValueError.
parse_unix(timestamp) ==
    LET n == int_of(timestamp)
        date == civil_from_days(n \div 86400)
        s == n % 86400
    IN  IF ~AllDigits(timestamp) THEN Raised
        ELSE Parsed(Pad4(date.year) \o "-" \o Pad2(date.month) \o "-"
                        \o Pad2(date.day) \o " " \o Pad2(s \div 3600) \o ":"
                        \o Pad2((s % 3600) \div 60) \o ":" \o Pad2(s % 60))

\* Lines 65-89.
parse_timestamp(timestamp) ==
    IF Contains(timestamp, "T") THEN parse_iso(timestamp)
    ELSE parse_unix(timestamp)

\* Lines 63-117 for a timestamp the post carries: the two time fields, with
\* now - dt of a seconds.
TimestampFieldsSplit(timestamp, a) ==
    LET p == parse_timestamp(timestamp)
    IN  IF p.ok
        THEN [reddit_posted_time |-> p.posted, reddit_time_ago |-> time_ago(a)]
        ELSE [reddit_posted_time |-> "Parse error",
              reddit_time_ago |-> "Not found"]

TimestampFields(timestamp, a) ==
    LET p == parse_timestamp(timestamp)
    IN  IF p.ok
        THEN [reddit_posted_time |-> p.posted, reddit_time_ago |-> time_ago(a)]
        ELSE [reddit_posted_time |-> "Parse error",
              reddit_time_ago |-> "Parse error"]

(***************************************************************************)
(* reddit_scrapper.py: the document behind a URL.  A document is a list    *)
(* of elements; get_reddit_html returns its markup, BeautifulSoup reads    *)
(* the elements back from the markup.                                      *)
(***************************************************************************)

Element(tag, attrs, text) == [tag |-> tag, attrs |-> attrs, text |-> text]

\* An attribute that is present at most once: o is <<>> or <<value>>.
OptAttr(name, o) == IF o = <<>> THEN <<>> ELSE <<<<name, o[1]>>>>

RECURSIVE AttrMarkup(_)
AttrMarkup(attrs) ==
    IF attrs = <<>> THEN ""
    ELSE " " \o attrs[1][1] \o "=\"" \o attrs[1][2] \o "\""
             \o AttrMarkup(Tail(attrs))

ElementMarkup(e) ==
    "<" \o e.tag \o AttrMarkup(e.attrs) \o ">" \o e.text
        \o "</" \o e.tag \o ">"

\* response.text of a document.
RECURSIVE Markup(_)
Markup(doc) ==
    IF doc = <<>> THEN "" ELSE ElementMarkup(Head(doc)) \o Markup(Tail(doc))

\* The class the status banner of a post carries (line 128).
StatusClass == "flex flex-auto flex-col justify-center text-14 pl-sm"

\* The documents explored: an element of the comment tree that carries a
\* score and a comment count of its own, the post with any of its four
\* attributes, the status banner, and a paragraph of text, each present or
\* not, in this order.
TitleValues == {<<>>, <<"">>, <<"T">>}
TimestampValues ==
    {<<>>, <<"2023-10-03T19:03:52.606000+0000">>, <<"2024-02-29T23:59:59Z">>,
     <<"1696359832">>, <<"Tuesday">>, <<"soon">>,
     <<"2023-10-03T19:03:52.606.000Z">>, <<"2023-02-30T10:00:00">>}
CountValues == {<<>>, <<"5">>}
ScoreValues == {<<>>, <<"3">>}
CommentElements == {<<>>, <<Element("shreddit-comment",
                                    <<<<"score", "8">>,
                                      <<"comment-count", "9">>>>, "")>>}
PostElements ==
    {<<>>} \cup
    {<<Element("shreddit-post",
               OptAttr("post-title", t) \o OptAttr("created-timestamp", c)
                   \o OptAttr("comment-count", n) \o OptAttr("score", v), "")>> :
         t \in TitleValues, c \in TimestampValues,
         n \in CountValues, v \in ScoreValues}
StatusElements ==
    {<<>>} \cup
    {<<Element("span", <<<<"class", StatusClass>>>>, text)>> :
         text \in {"Archived post. New comments cannot be posted.",
                   "Locked post. New comments cannot be posted."}}
TextElements ==
    {<<>>} \cup
    {<<Element("p", <<>>, text)>> : text \in {"LOCKED out of my car"}}
Documents ==
    {c \o p \o s \o t : c \in CommentElements, p \in PostElements,
                        s \in StatusElements, t \in TextElements}

\* now - dt in seconds for the posts explored; negative for a post dated
\* after the host's clock.
PostAges == {0 - 5, 59, 7200, 172800, 34560000}

\* soup.find(tag): the first element with the tag, as <<>> or <<element>>.
soup_find(doc, tag) ==
    LET at == {i \in 1..Len(doc) : doc[i].tag = tag}
    IN  IF at = {} THEN <<>> ELSE <<doc[Min(at)]>>

\* soup.find('span', class_=c): the first span whose class attribute is c.
soup_find_class(doc, tag, c) ==
    LET at == {i \in 1..Len(doc) :
                   /\ doc[i].tag = tag
                   /\ \E k \in 1..Len(doc[i].attrs) :
                          doc[i].attrs[k] = <<"class", c>>}
    IN  IF at = {} THEN <<>> ELSE <<doc[Min(at)]>>

\* element.get(name): the attribute's value, "" standing for None as well,
\* since every reader of it in lines 60-125 tests its truth first.
attr_get(e, name) ==
    LET at == {k \in 1..Len(e.attrs) : e.attrs[k][1] = name}
    IN  IF at = {} THEN "" ELSE e.attrs[Min(at)][2]

(***************************************************************************)
(* reddit_scrapper.py: extract_reddit_details and extract_with_regex.      *)
(***************************************************************************)

DetailKeys ==
    {"reddit_title", "reddit_posted_time", "reddit_time_ago",
     "reddit_comments_count", "reddit_score", "reddit_is_archived"}

\* Lines 37-44.
ErrorDetails ==
    [reddit_title |-> "Error: Could not fetch", reddit_posted_time |-> "Error",
     reddit_time_ago |-> "Error", reddit_comments_count |-> "Error",
     reddit_score |-> "Error", reddit_is_archived |-> "Error"]

\* Lines 48-55.
DefaultDetails ==
    [reddit_title |-> "Not found", reddit_posted_time |-> "Not found",
     reddit_time_ago |-> "Not found", reddit_comments_count |-> "Not found",
     reddit_score |-> "Not found", reddit_is_archived |-> "No"]

\* d.update(u) for a dict d and a dict u given as a function on some keys.
dict_update(d, u) ==
    [k \in DOMAIN d |-> IF k \in DOMAIN u THEN u[k] ELSE d[k]]

\* A dict of one entry, or none when the condition fails.
EntryIf(cond, k, v) == [x \in (IF cond THEN {k} ELSE {}) |-> v]

\* Lines 57-125: what the shreddit-post element resolves.
post_details(doc, a) ==
    LET found == soup_find(doc, "shreddit-post")
        shreddit_post == found[1]
        title == attr_get(shreddit_post, "post-title")
        timestamp == attr_get(shreddit_post, "created-timestamp")
        times == TimestampFields(timestamp, a)
        count == attr_get(shreddit_post, "comment-count")
        score == attr_get(shreddit_post, "score")
    IN  IF found = <<>> THEN EntryIf(FALSE, "", "")
        ELSE EntryIf(title # "", "reddit_title", title)
             @@ EntryIf(timestamp # "", "reddit_posted_time",
                        times.reddit_posted_time)
             @@ EntryIf(timestamp # "", "reddit_time_ago",
                        times.reddit_time_ago)
             @@ EntryIf(count # "", "reddit_comments_count", count)
             @@ EntryIf(score # "", "reddit_score", score)

\* Lines 128-132: the status banner.
status_details(doc) ==
    LET found == soup_find_class(doc, "span", StatusClass)
        text == lower(found[1].text)
    IN  EntryIf(found # <<>> /\ (Contains(text, "archived post")
                                    \/ Contains(text, "locked post")),
                "reddit_is_archived", "Yes")

\* Lines 141-169.
extract_with_regex(html) ==
    LET title_match == attr_search(html, "post-title")
        comments_match == attr_search(html, "comment-count")
        score_match == attr_search(html, "score")
    IN  EntryIf(title_match.found, "reddit_title", title_match.group)
        @@ EntryIf(comments_match.found, "reddit_comments_count",
                   comments_match.group)
        @@ EntryIf(score_match.found, "reddit_score", score_match.group)
        @@ EntryIf(Contains(html, "Archived post.")
                       \/ Contains(lower(html), "locked"),
                   "reddit_is_archived", "Yes")

\* Lines 46-132: the fields before the fallback is considered.
primary_details(doc, a) ==
    dict_update(dict_update(DefaultDetails, post_details(doc, a)),
                status_details(doc))

\* Line 135.
fallback_runs(doc, a) == primary_details(doc, a).reddit_title = "Not found"

\* extract_reddit_details(html_content), doc being what BeautifulSoup reads
\* from the markup.  Line 36 takes None and the empty text alike.
extract_reddit_details(html, doc, a) ==
    IF html.is_none \/ html.text = "" THEN ErrorDetails
    ELSE IF fallback_runs(doc, a)
    THEN dict_update(primary_details(doc, a), extract_with_regex(html.text))
    ELSE primary_details(doc, a)

(***************************************************************************)
(* SpecReddit: one URL through get_reddit_html and extract_reddit_details. *)
(***************************************************************************)

InitReddit ==
    /\ pc = "fetch"
    /\ urls_to_process = <<>>
    /\ fetched = <<>>
    /\ scraped_contents = <<>>
    /\ generated_queries = <<>>
    /\ batch_num = 0
    /\ batches = <<>>
    /\ batch_queries = <<>>
    /\ all_analysis_results = <<>>
    /\ analysis_results = <<>>
    /\ batch_sleeps = <<>>
    /\ CallIdle
    /\ age \in PostAges
    /\ reddit_time_ago = "Not found"
    /\ page \in Documents
    /\ html_content = NoHtml
    /\ details = NoDetails
    /\ TableIdle
    /\ SessionIdle
    /\ model_texts = ResponseTexts

\* Lines 29-31: the request succeeds and the markup of the page comes back.
FetchReturnsText ==
    /\ pc = "fetch"
    /\ html_content' = Html(Markup(page))
    /\ pc' = "fetched"
    /\ UNCHANGED <<scrapeVars, loopVars, callVars, timeVars, page, details,
                   tableVars, sessionVars, envVars>>

\* Lines 32-33: the request or raise_for_status raises.
FetchReturnsNone ==
    /\ pc = "fetch"
    /\ html_content' = NoHtml
    /\ pc' = "failed"
    /\ UNCHANGED <<scrapeVars, loopVars, callVars, timeVars, page, details,
                   tableVars, sessionVars, envVars>>

\* extract_reddit_details on what get_reddit_html returned.
ExtractDetails ==
    /\ pc \in {"fetched", "failed"}
    /\ details' = extract_reddit_details(html_content, page, age)
    /\ pc' = "extracted"
    /\ UNCHANGED <<scrapeVars, loopVars, callVars, timeVars, page,
                   html_content, tableVars, sessionVars, envVars>>

NextReddit == FetchReturnsText \/ FetchReturnsNone \/ ExtractDetails

SpecReddit == InitReddit /\ [][NextReddit]_vars

(***************************************************************************)
(* Claims on SpecReddit.                                                   *)
(***************************************************************************)

\* The fetch returned a text extract_reddit_details went on to read.
Extracted == pc = "extracted" /\ details # ErrorDetails

\* C11: the regex fallback never overwrites a field (title, comment count,
\* score) that the shreddit-post element already resolved: after the
\* extraction each such field still holds the value the element gave it.
C11_FallbackKeepsResolved ==
    Extracted =>
        \A k \in {"reddit_title", "reddit_comments_count", "reddit_score"} :
            k \in DOMAIN post_details(page, age)
                => details[k] = post_details(page, age)[k]

\* The text of the status banner of the page, lowercased, "" without one.
StatusText(doc) ==
    LET found == soup_find_class(doc, "span", StatusClass)
    IN  IF found = <<>> THEN "" ELSE lower(found[1].text)

\* C12: archived/locked detection does not depend on which strategy
\* resolved the other fields: reddit_is_archived is 'Yes' whenever the
\* status banner reads 'archived post' or 'locked post', and whenever the
\* raw markup holds 'locked' in any letter case, the documents whose title
\* the shreddit-post element resolved included.
C12_ArchivedDetection ==
    Extracted =>
        /\ (Contains(StatusText(page), "archived post")
                \/ Contains(StatusText(page), "locked post"))
               => details.reddit_is_archived = "Yes"
        /\ Contains(lower(html_content.text), "locked")
               => details.reddit_is_archived = "Yes"

\* A value of the 'Error' family of lines 37-44.
IsErrorField(v) == v \in {"Error", "Error: Could not fetch"}

\* The fields neither strategy finds in a document.
AbsentFields(html, doc, a) ==
    {k \in DetailKeys \ {"reddit_is_archived"} :
         /\ k \notin DOMAIN post_details(doc, a)
         /\ k \notin DOMAIN extract_with_regex(html)}

\* C13: a failed fetch and an absent field are told apart: when the fetch
\* failed all six fields hold an Error marker; when the fetch succeeded, a
\* response with an empty body included, no field holds an Error marker
\* and each absent field reads 'Not found'.
C13_ErrorVersusNotFound ==
    pc = "extracted" =>
        IF html_content.is_none
        THEN \A k \in DetailKeys : IsErrorField(details[k])
        ELSE /\ \A k \in DetailKeys : ~IsErrorField(details[k])
             /\ \A k \in AbsentFields(html_content.text, page, age) :
                    details[k] = "Not found"

\* The created-timestamp the post of a document carries, "" for none.
PostTimestamp(doc) ==
    LET found == soup_find(doc, "shreddit-post")
    IN  IF found = <<>> THEN "" ELSE attr_get(found[1], "created-timestamp")

\* The document with the created-timestamp of its post rewritten.
WithTimestamp(doc, timestamp) ==
    [i \in 1..Len(doc) |->
        IF doc[i].tag # "shreddit-post" THEN doc[i]
        ELSE [doc[i] EXCEPT !.attrs =
                 [k \in 1..Len(@) |->
                     IF @[k][1] = "created-timestamp"
                     THEN <<"created-timestamp", timestamp>> ELSE @[k]]]]

\* The timestamps of the documents that parse, and those that do not.
ParseableTimestamps ==
    {c[1] : c \in {v \in TimestampValues : v # <<>> /\ parse_timestamp(v[1]).ok}}
UnparseableTimestamp(doc) ==
    PostTimestamp(doc) # "" /\ ~parse_timestamp(PostTimestamp(doc)).ok

\* C14: a created-timestamp that cannot be parsed sets reddit_posted_time
\* and reddit_time_ago both to 'Parse error'; the comment count, the score
\* and the archived flag are what they are for the same page with a
\* timestamp that parses, and a title already read from the post is kept.
C14_ParseErrorIsLocal ==
    (Extracted /\ UnparseableTimestamp(page)) =>
        /\ details.reddit_posted_time = "Parse error"
        /\ details.reddit_time_ago = "Parse error"
        /\ \A t \in ParseableTimestamps :
               LET other == WithTimestamp(page, t)
                   ref == extract_reddit_details(Html(Markup(other)), other, age)
               IN  \A k \in {"reddit_title", "reddit_comments_count",
                             "reddit_score", "reddit_is_archived"} :
                       details[k] = ref[k]
        /\ LET title == attr_get(soup_find(page, "shreddit-post")[1],
                                 "post-title")
           IN  title # "" => details.reddit_title = title

\* C14 happens: a post with a title, a comment count and a timestamp that
\* does not parse has been extracted.
C14_Witness ==
    /\ Extracted
    /\ UnparseableTimestamp(page)
    /\ details.reddit_title = "T"
    /\ details.reddit_comments_count = "5"
    /\ details.reddit_posted_time = "Parse error"

(***************************************************************************)
(* SpecTable: process_reddit_urls on an uploaded table.  A table is its    *)
(* list of column names and its list of rows, a row giving a text per      *)
(* column.                                                                 *)
(***************************************************************************)

\* Lines 214-221.
new_columns ==
    <<"Post Title", "Posted Date & Time", "Posted (Relative)",
      "Total Comments", "Total Upvotes", "Archived/Locked">>

\* Lines 236-243: the column of each field of details.
mapped_details(d) ==
    [c \in {new_columns[i] : i \in 1..Len(new_columns)} |->
        CASE c = "Post Title" -> d.reddit_title
          [] c = "Posted Date & Time" -> d.reddit_posted_time
          [] c = "Posted (Relative)" -> d.reddit_time_ago
          [] c = "Total Comments" -> d.reddit_comments_count
          [] c = "Total Upvotes" -> d.reddit_score
          [] c = "Archived/Locked" -> d.reddit_is_archived]

ColumnNames(columns) == {columns[i] : i \in 1..Len(columns)}
ColumnSet(t) == ColumnNames(t.columns)

\* df[col] = value: the column is overwritten where it is, or added last.
set_column(t, col, value) ==
    [columns |-> IF col \in ColumnSet(t) THEN t.columns
                 ELSE Append(t.columns, col),
     cells |-> [i \in 1..Len(t.cells) |->
                   [c \in ColumnSet(t) \cup {col} |->
                       IF c = col THEN value ELSE t.cells[i][c]]]]

\* Lines 222-223.
RECURSIVE add_new_columns(_, _)
add_new_columns(t, cols) ==
    IF cols = <<>> THEN t
    ELSE add_new_columns(set_column(t, Head(cols), "Not processed"), Tail(cols))

\* Lines 244-245: df.at[row_idx, key] = value for every key of a dict.
set_row(t, row_idx, values) ==
    [t EXCEPT !.cells[row_idx] =
        [c \in DOMAIN @ |-> IF c \in DOMAIN values THEN values[c] ELSE @[c]]]

\* Line 224: the rows whose URL cell holds reddit.com in any letter case,
\* in table order.
RECURSIVE SelectRows(_, _, _)
SelectRows(t, col, i) ==
    IF i > Len(t.cells) THEN <<>>
    ELSE (IF Contains(lower(t.cells[i][col]), "reddit.com") THEN <<i>>
          ELSE <<>>) \o SelectRows(t, col, i + 1)
reddit_urls(t, col) == SelectRows(t, col, 1)

\* The page a URL serves: a post that names the URL as its title.
PageOf(url) ==
    <<Element("shreddit-post",
              <<<<"post-title", "Post at " \o url>>, <<"score", "3">>>>, "")>>

\* The tables explored: up to MaxRows rows, a URL column alone or with a
\* second column, which may carry the name of a derived column.
MaxRows == 2
UrlCells ==
    {"https://www.reddit.com/r/a", "https://old.REDDIT.com/r/b",
     "https://example.com/c"}
ColumnLayouts ==
    {<<"URL">>, <<"URL", "Notes">>, <<"URL", "Post Title">>,
     <<"Total Upvotes", "URL">>, <<"Post Title">>}
UrlColumnOf(columns) == IF "URL" \in ColumnNames(columns) THEN "URL" ELSE columns[1]
InputTables ==
    {[columns |-> cols,
      cells |-> [i \in 1..Len(urls) |->
                    [c \in ColumnNames(cols) |->
                        IF c = UrlColumnOf(cols) THEN urls[i]
                        ELSE "note " \o ToString(i)]]] :
         cols \in ColumnLayouts,
         urls \in UNION {[1..n -> UrlCells] : n \in 0..MaxRows}}

InitTable ==
    /\ pc = "upload"
    /\ urls_to_process = <<>>
    /\ fetched = <<>>
    /\ scraped_contents = <<>>
    /\ generated_queries = <<>>
    /\ batch_num = 0
    /\ batches = <<>>
    /\ batch_queries = <<>>
    /\ all_analysis_results = <<>>
    /\ analysis_results = <<>>
    /\ batch_sleeps = <<>>
    /\ CallIdle
    /\ age = 0
    /\ reddit_time_ago = "Not found"
    /\ RedditIdle
    /\ df_input \in InputTables
    /\ url_column = UrlColumnOf(df_input.columns)
    /\ df = EmptyTable
    /\ row_pos = 0
    /\ SessionIdle
    /\ model_texts = ResponseTexts

\* Lines 213-225 on a copy of the uploaded table, with rows to process.
ProcessStart ==
    /\ pc = "upload"
    /\ df' = add_new_columns(df_input, new_columns)
    /\ reddit_urls(df', url_column) # <<>>
    /\ row_pos' = 0
    /\ pc' = "rows"
    /\ UNCHANGED <<scrapeVars, loopVars, callVars, timeVars, redditVars,
                   df_input, url_column, sessionVars, envVars>>

\* Lines 213-227: no row holds a Reddit URL and the table is returned.
ProcessNoUrls ==
    /\ pc = "upload"
    /\ df' = add_new_columns(df_input, new_columns)
    /\ reddit_urls(df', url_column) = <<>>
    /\ row_pos' = 0
    /\ pc' = "processed"
    /\ UNCHANGED <<scrapeVars, loopVars, callVars, timeVars, redditVars,
                   df_input, url_column, sessionVars, envVars>>

\* Lines 228-246 for the next Reddit row, whose fetch returns html.
ProcessRow(html, doc) ==
    LET rows == reddit_urls(df, url_column)
        row_idx == rows[row_pos + 1]
    IN  /\ page' = doc
        /\ html_content' = html
        /\ details' = extract_reddit_details(html, doc, age)
        /\ df' = set_row(df, row_idx, mapped_details(details'))
        /\ row_pos' = row_pos + 1
        /\ pc' = IF row_pos + 1 = Len(rows) THEN "processed" ELSE "rows"
        /\ UNCHANGED <<scrapeVars, loopVars, callVars, timeVars, df_input,
                       url_column, sessionVars, envVars>>

RowFetched ==
    /\ pc = "rows"
    /\ LET url == df.cells[reddit_urls(df, url_column)[row_pos + 1]][url_column]
       IN  ProcessRow(Html(Markup(PageOf(url))), PageOf(url))

RowFetchFails ==
    /\ pc = "rows"
    /\ ProcessRow(NoHtml, <<>>)

NextTable == ProcessStart \/ ProcessNoUrls \/ RowFetched \/ RowFetchFails

SpecTable == InitTable /\ [][NextTable]_vars

(***************************************************************************)
(* Claims on SpecTable.                                                    *)
(***************************************************************************)

\* The values a row may show in the derived columns: those of the page of
\* its own URL, those of a failed fetch, or 'Not processed' for a row
\* without a Reddit URL.
OwnDerivedValues(url) ==
    IF Contains(lower(url), "reddit.com")
    THEN {mapped_details(extract_reddit_details(Html(Markup(PageOf(url))),
                                                PageOf(url), 0)),
          mapped_details(ErrorDetails)}
    ELSE {[c \in ColumnNames(new_columns) |-> "Not processed"]}

\* C15: process_reddit_urls returns the same rows in the same order, every
\* input column keeps its values (a column that carries the name of a
\* derived column included), the six derived columns are added, and the
\* derived values of a row come only from the row's own URL.
C15_InputColumnsKept ==
    pc = "processed" =>
        /\ Len(df.cells) = Len(df_input.cells)
        /\ \A i \in 1..Len(df_input.cells) : \A c \in ColumnSet(df_input) :
               df.cells[i][c] = df_input.cells[i][c]
        /\ ColumnNames(new_columns) \subseteq ColumnSet(df)
        /\ \A i \in 1..Len(df_input.cells) :
               [c \in ColumnNames(new_columns) |-> df.cells[i][c]]
                   \in OwnDerivedValues(df_input.cells[i][url_column])

(***************************************************************************)
(* SpecScore: the "Scrape & Analyze" handler of app.py on a list of one    *)
(* batch whose answers carry a coverage_score per row.                     *)
(***************************************************************************)

MaxScoredQueries == 2

\* The coverage_score literals a row may carry: none, null, a score in
\* range, one above 10, one below 0, and one that is not an integer.
ScoreLiterals == {"", "null", "7", "11", "-1", "7.5"}

RECURSIVE JoinRows(_)
JoinRows(lits) ==
    IF Len(lits) = 0 THEN ""
    ELSE IF Len(lits) = 1 THEN "S" \o lits[1]
    ELSE "S" \o lits[1] \o "," \o JoinRows(Tail(lits))

\* The answers with one row per query of a batch of n queries.
ScoredAnswers(n) ==
    {"{" \o JoinRows(lits) \o "}" : lits \in [1..n -> ScoreLiterals]}

InitScore ==
    /\ pc = "idle"
    /\ urls_to_process \in UrlLists
    /\ fetched = <<>>
    /\ scraped_contents = <<>>
    /\ generated_queries \in {QueryList(n) : n \in 1..MaxScoredQueries}
    /\ batch_num = 0
    /\ batches = <<>>
    /\ batch_queries = <<>>
    /\ all_analysis_results = <<>>
    /\ analysis_results = <<>>
    /\ batch_sleeps = <<>>
    /\ CallIdle
    /\ age = 0
    /\ reddit_time_ago = "Not found"
    /\ RedditIdle
    /\ TableIdle
    /\ queries_generated = TRUE
    /\ generations = 0
    /\ model_texts = ScoredAnswers(Len(generated_queries)) \cup {"x"}

SpecScore == InitScore /\ [][Next]_vars

(***************************************************************************)
(* Claims on SpecScore.                                                    *)
(***************************************************************************)

\* The rows of the results table (lines 308-313) of the stored results.
TableRows == AllQueryAnalyses(analysis_results)

\* C16: every coverage_score that reaches the stored analysis results and
\* the results table is an integer from 0 to 10, whatever the model
\* answered: each stored row has a coverage_score, it is never null, and a
\* score the model left out reads 0.
C16_ScoreInRange ==
    \A i \in 1..Len(TableRows) :
        /\ "coverage_score" \in DOMAIN TableRows[i]
        /\ TableRows[i].coverage_score.type = "int"
        /\ TableRows[i].coverage_score.val \in 0..10

(***************************************************************************)
(* SpecSession: the two buttons of app.py over one session.  The script    *)
(* runs anew on every press; st.session_state outlives the runs.           *)
(***************************************************************************)

MaxGenerations == 2

\* The URL box between runs: empty or one URL.
SessionUrlLists == {<<>>, <<UrlName(1)>>}

\* The list press g of "Generate & Analyze" yields when the model answers
\* with n queries: queries no other press yields.
GeneratedList(g, n) == [i \in 1..n |-> 100 * g + i]

\* List lengths of one batch and of two.
GeneratedLengths == {1, batch_size + 1}

\* Line 223 next to a variant that keeps the earlier results.
ResultsAfterGenerateKept(old) == old
ResultsAfterGenerate(old) == <<>>

\* A new run of the script: the locals of the run before are gone, the URL
\* box holds what the user left in it.
NewRun ==
    /\ pc' = "idle"
    /\ urls_to_process' \in SessionUrlLists
    /\ fetched' = <<>>
    /\ scraped_contents' = <<>>
    /\ batch_num' = 0
    /\ batches' = <<>>
    /\ batch_queries' = <<>>
    /\ all_analysis_results' = <<>>
    /\ batch_sleeps' = <<>>
    /\ attempt' = 0
    /\ raw_text' = Unbound
    /\ json_text' = Unbound
    /\ trace' = <<>>
    /\ sleeps' = <<>>
    /\ failure' = "none"
    /\ ret' = None

InitSession ==
    /\ pc = "idle"
    /\ urls_to_process \in SessionUrlLists
    /\ fetched = <<>>
    /\ scraped_contents = <<>>
    /\ generated_queries = <<>>
    /\ batch_num = 0
    /\ batches = <<>>
    /\ batch_queries = <<>>
    /\ all_analysis_results = <<>>
    /\ analysis_results = <<>>
    /\ batch_sleeps = <<>>
    /\ CallIdle
    /\ age = 0
    /\ reddit_time_ago = "Not found"
    /\ RedditIdle
    /\ TableIdle
    /\ SessionIdle
    /\ model_texts = {"{F}", "x"}

\* Lines 216-223 with a truthy list from generate_content_gap_queries
\* (lines 78-96).  A press while a run is under way stops that run.
GenerateReplaces ==
    /\ generations < MaxGenerations
    /\ generations' = generations + 1
    /\ \E n \in GeneratedLengths :
           generated_queries' = GeneratedList(generations', n)
    /\ queries_generated' = TRUE
    /\ analysis_results' = ResultsAfterGenerate(analysis_results)
    /\ NewRun
    /\ UNCHANGED <<timeVars, redditVars, tableVars, envVars>>

\* Lines 216-220 when generate_content_gap_queries returns None (lines
\* 97-105) or an empty list: line 220 skips the three assignments.
GenerateKeeps ==
    /\ generations < MaxGenerations
    /\ generations' = generations + 1
    /\ NewRun
    /\ UNCHANGED <<generated_queries, queries_generated, analysis_results,
                   timeVars, redditVars, tableVars, envVars>>

\* The script reaches its end or stops on the exception; the page waits for
\* the next press.
ScriptEnds ==
    /\ pc \in {"done", "warned", "raised"}
    /\ NewRun
    /\ UNCHANGED <<generated_queries, analysis_results, timeVars, moreVars>>

NextSession == Next \/ GenerateReplaces \/ GenerateKeeps \/ ScriptEnds

SpecSession == InitSession /\ [][NextSession]_vars

(***************************************************************************)
(* Claims on SpecSession.                                                  *)
(***************************************************************************)

\* C17: after any sequence of presses the stored analysis results were
\* computed from the stored query list: every stored row answers a query of
\* the list; a press of "Generate & Analyze" either installs a new list and
\* empties the results in the same step, or (failed or empty generation)
\* leaves list and results as they were; and the results change only to
\* results for the list that is stored, which the step leaves in place.
C17_ResultsMatchQueries ==
    /\ [](\A i \in 1..Len(DisplayedQueries(analysis_results)) :
              \E k \in 1..Len(generated_queries) :
                  DisplayedQueries(analysis_results)[i] = generated_queries[k])
    /\ [][/\ generations' # generations =>
                \/ /\ generated_queries' # generated_queries
                   /\ generated_queries' # <<>>
                   /\ analysis_results' = <<>>
                \/ /\ generated_queries' = generated_queries
                   /\ analysis_results' = analysis_results
          /\ generations' = generations =>
                /\ generated_queries' = generated_queries
                /\ analysis_results' # analysis_results =>
                       \A i \in 1..Len(DisplayedQueries(analysis_results')) :
                           \E k \in 1..Len(generated_queries) :
                               DisplayedQueries(analysis_results')[i]
                                   = generated_queries[k]]_vars

\* C17 happens: results of a run are stored for the list of the second
\* press, after the list of the first press had results of its own.
C17_Witness ==
    /\ generations = 2
    /\ pc = "done"
    /\ Len(generated_queries) = batch_size + 1
    /\ generated_queries[1] = 201
    /\ DisplayedQueries(analysis_results) = generated_queries

====
